---- MODULE Spec2Model ----
(***************************************************************************)
(* Token-holder snapshot: the GraphQL variant (getTokenHolders, with its   *)
(* Balance Enricher fetchWithRetry / processBatch / fetchAllBalances) and  *)
(* the REST variant (getTokenSnapshot, the page loop).                     *)
(*                                                                         *)
(* Strings the code inspects character by character (the token address,    *)
(* a balance value) are sequences of one-character strings.  Every await   *)
(* of the code is a suspension point: one action is one resumption of the  *)
(* program, run to its next await.                                         *)
(***************************************************************************)
EXTENDS Integers, Sequences, FiniteSets, TLC

(***************************** program constants ***************************)
BATCH_SIZE == 10
MAX_RETRIES == 3
BASE_DELAY_MS == 300
LIMIT_PER_PAGE == 100

(********************************* bounds **********************************)
\* The bulk query returns transfers naming at most MaxAddrs addresses.
MaxAddrs == 25
\* Lookup requests fail only in runs of at most MaxFaultyRun addresses.
MaxFaultyRun == 11
\* The REST provider serves at most MaxPages pages before the run is cut.
MaxPages == 3
\* The significant decimal digits a Number keeps (a double keeps 53 bits, 15 to
\* 17 digits).
Precision == 2

(************************** Number: floating point *************************)
\* A Number is m * 10^e in units of 1e-11 token (10^7 of the token's smallest
\* unit), with at most Precision digits in m; its form is unique: e is as small
\* as the digits of m allow.  Sums are rounded to the nearest Number, ties to
\* the even one, as the sums of doubles are.
Abs(x) == IF x < 0 THEN 0 - x ELSE x

RECURSIVE NumDigits(_)
NumDigits(n) == IF n < 10 THEN 1 ELSE 1 + NumDigits(n \div 10)

\* s / q rounded to the nearest integer, ties to even
RoundDiv(s, q) ==
    LET f == Abs(s) \div q
        r == Abs(s) % q
        mag == IF 2 * r > q \/ (2 * r = q /\ f % 2 = 1) THEN f + 1 ELSE f
    IN  IF s < 0 THEN 0 - mag ELSE mag

\* The Number nearest to s * 10^e.
Nearest(s, e) ==
    LET n == NumDigits(Abs(s))
    IN  IF s = 0 THEN [m |-> 0, e |-> 0]
        ELSE IF n > Precision
        THEN LET r == RoundDiv(s, 10 ^ (n - Precision))
             IN  IF Abs(r) = 10 ^ Precision
                 THEN [m |-> r \div 10, e |-> e + (n - Precision) + 1]
                 ELSE [m |-> r, e |-> e + (n - Precision)]
        ELSE LET up == IF e < Precision - n THEN e ELSE Precision - n
             IN  [m |-> s * (10 ^ up), e |-> e - up]

Zero == [m |-> 0, e |-> 0]
Neg(a) == [m |-> 0 - a.m, e |-> a.e]

\* a + b.  A term more than Precision + 1 digits below the other cannot move
\* the rounded sum; otherwise the exact sum is formed and rounded.
Plus(a, b) ==
    LET hi == IF a.e >= b.e THEN a ELSE b
        lo == IF a.e >= b.e THEN b ELSE a
    IN  IF a.m = 0 THEN b
        ELSE IF b.m = 0 THEN a
        ELSE IF hi.e - lo.e > Precision + 1 THEN hi
        ELSE Nearest(hi.m * (10 ^ (hi.e - lo.e)) + lo.m, lo.e)

Minus(a, b) == Plus(a, Neg(b))

\* a > b: the rounded difference has the sign of the exact one
Greater(a, b) == Minus(a, b).m > 0

\* 1e-10
EPSILON == Nearest(10, 0)

(******************************* characters ********************************)
Digits == {"0", "1", "2", "3", "4", "5", "6", "7", "8", "9"}
HexChars == Digits \cup {"a", "b", "c", "d", "e", "f", "A", "B", "C", "D", "E", "F"}

Repeat(c, k) == [i \in 1..k |-> c]

(***************************** Address Validator ***************************)
\* /^0x[a-fA-F0-9]{40}$/ on a string
RegexMatch(s) ==
    /\ Len(s) = 42
    /\ s[1] = "0"
    /\ s[2] = "x"
    /\ \A i \in 3..42 : s[i] \in HexChars

\* A JavaScript argument: undefined, or a string.
Undefined == [defined |-> FALSE, chars |-> <<>>]
Str(s) == [defined |-> TRUE, chars |-> s]

\* The token address of the source, 0x3da3d8cde7b12cd2cbb688e2655bcacd8946399d,
\* with some of its letters in upper case.
ExampleToken == <<"0", "x">> \o <<"3", "D", "a", "3", "d", "8", "C", "d", "E", "7">>
                \o <<"b", "1", "2", "c", "d", "2", "c", "B", "b", "6">>
                \o <<"8", "8", "e", "2", "6", "5", "5", "b", "c", "A">>
                \o <<"c", "d", "8", "9", "4", "6", "3", "9", "9", "F">>

\* The arguments a run is started with.
TokenInputs ==
    { Str(ExampleToken),
      Undefined,
      Str(<<>>),                                           \* the empty string
      Str(Repeat("a", 40)),                                \* no 0x prefix
      Str(<<"0", "x">> \o Repeat("a", 39)),                \* too short
      Str(<<"0", "x">> \o Repeat("a", 41)),                \* too long
      Str(<<"0", "x">> \o Repeat("a", 39) \o <<"g">>),     \* a non-hex character
      Str(<<"0", "X">> \o Repeat("a", 40)) }               \* wrong prefix

WellFormed(t) == t.defined /\ RegexMatch(t.chars)

\* process.env.BITQUERY_API_KEY after dotenv.config(): not set, set to the
\* empty string, or set to a key.
KeyInputs == { Undefined, Str(<<>>), Str(<<"k", "e", "y">>) }

\* if (!CONFIG.BITQUERY_API_KEY) throw ...
KeyMissingIfEmpty(k) == k.defined /\ k.chars = <<>>
KeyMissing(k) == ~k.defined \/ k.chars = <<>>

\* getTokenHolders: if (!tokenAddress.match(/^0x[a-fA-F0-9]{40}$/)) throw ...
\* "TypeError" is what reading .match of undefined throws.
HoldersGate(t) ==
    IF ~t.defined THEN "TypeError"
    ELSE IF ~RegexMatch(t.chars) THEN "InvalidAddress"
    ELSE "pass"

\* getTokenSnapshot: if (!tokenAddress || !/^0x[a-fA-F0-9]{40}$/.test(tokenAddress)) throw ...
SnapshotGate(t) ==
    IF ~t.defined \/ t.chars = <<>> \/ ~RegexMatch(t.chars) THEN "InvalidAddress"
    ELSE "pass"

(******************************* parseFloat ********************************)
\* The number of consecutive decimal digits of s from index i on.
RECURSIVE DigitRun(_, _)
DigitRun(s, i) ==
    IF i <= Len(s) /\ s[i] \in Digits THEN 1 + DigitRun(s, i + 1) ELSE 0

\* parseFloat(s) over the characters used here (digits, sign, point, letters):
\* the longest prefix [+-]? digits* (. digits*)? with at least one digit is the
\* number, anything after it is ignored; no such prefix gives NaN.  Only what the
\* comparison with 0 reads is kept: whether it is NaN, negative, or non-zero.
ParseFloat(s) ==
    LET signLen == IF Len(s) >= 1 /\ s[1] \in {"+", "-"} THEN 1 ELSE 0
        intLen == DigitRun(s, signLen + 1)
        dot == signLen + intLen + 1
        fracLen == IF dot <= Len(s) /\ s[dot] = "." THEN DigitRun(s, dot + 1) ELSE 0
        used == ({signLen + k : k \in 1..intLen}) \cup ({dot + k : k \in 1..fracLen})
    IN  [nan |-> intLen + fracLen = 0,
         neg |-> signLen = 1 /\ s[1] = "-",
         nonzero |-> \E i \in used : s[i] # "0"]

GreaterThanZero(x) == ~x.nan /\ ~x.neg /\ x.nonzero

(************************** the balance-lookup service *********************)
\* The body of a successful balance response: whether ethereum.address[0] is
\* there, whether balances[0].value is there, and the value.
Payload(hasAddress, hasValue, value) ==
    [hasAddress |-> hasAddress, hasValue |-> hasValue, value |-> value]

FiveTokens == <<"5">> \o Repeat("0", 18)       \* "5000000000000000000"

\* What the service answers, by kind of answer.
PayloadPool ==
    << Payload(TRUE, TRUE, <<"0">>),                 \* a zero balance
       Payload(TRUE, TRUE, FiveTokens),              \* a positive balance
       Payload(FALSE, FALSE, <<>>),                  \* no address data
       Payload(TRUE, TRUE, <<"5", "a", "b", "c">>),  \* malformed, with a numeric prefix
       Payload(TRUE, TRUE, <<"a", "b", "c">>),       \* malformed, not a number
       Payload(TRUE, TRUE, <<"0", ".", "5">>),       \* a positive fraction
       Payload(TRUE, FALSE, <<>>),                   \* no balances entry
       Payload(TRUE, TRUE, <<"-", "5">>),            \* a negative value
       Payload(TRUE, TRUE, <<>>) >>                  \* the empty string

\* An address string is told by the number of its account; a negative number
\* is the same account's address written with upper-case hex letters.
\* The chain's answer for an address is a fact of the chain, whatever the
\* spelling: account a is answered with the (a mod |pool|)-th kind of answer.
BalanceOf(a) == PayloadPool[((Abs(a) - 1) % Len(PayloadPool)) + 1]

\* The addresses whose lookup requests may fail (any number of times): two that
\* share the first batch, and the first of the second batch.
FlakyAddrs == {2, 7, BATCH_SIZE + 1}

\* A balance value that is a well-formed decimal number: digits, optionally a
\* point and more digits, and nothing else.
IsDecimal(s) ==
    /\ Len(s) >= 1
    /\ \A i \in 1..Len(s) : s[i] \in Digits \cup {"."}
    /\ Cardinality({i \in 1..Len(s) : s[i] = "."}) <= 1
    /\ \E i \in 1..Len(s) : s[i] \in Digits

\* The payload carries a balance that is present and strictly positive.
PositiveBalance(p) ==
    /\ p.hasAddress
    /\ p.hasValue
    /\ IsDecimal(p.value)
    /\ \E i \in 1..Len(p.value) : p.value[i] \in Digits \ {"0"}

(****************************** fetchWithRetry *****************************)
\* The value a fetchWithRetry promise resolves to: null or {address, balance}.
Null == [null |-> TRUE, address |-> 0, balance |-> <<>>]
Holder(a, b) == [null |-> FALSE, address |-> a, balance |-> b]

\* The try block after a successful response.
OnResponse(address, p) ==
    IF ~p.hasAddress THEN Null
    ELSE IF p.hasValue /\ p.value # <<>> /\ GreaterThanZero(ParseFloat(p.value))
         THEN Holder(address, p.value)
         ELSE Null

\* catch: attempt < CONFIG.MAX_RETRIES
MayRetryOneLess(attempt) == attempt < MAX_RETRIES - 1
MayRetryOnceMore(attempt) == attempt <= MAX_RETRIES
MayRetry(attempt) == attempt < MAX_RETRIES

\* catch: delayMs = CONFIG.BASE_DELAY_MS * Math.pow(2, attempt - 1)
BackoffFromTwo(attempt) == BASE_DELAY_MS * (2 ^ attempt)
BackoffDelay(attempt) == BASE_DELAY_MS * (2 ^ (attempt - 1))

(***************************** fetchAllBalances ****************************)
Min(a, b) == IF a < b THEN a ELSE b

\* Math.ceil(length / CONFIG.BATCH_SIZE)
CeilDiv(n, d) == (n + d - 1) \div d

\* addresses.slice(from, to), 0-based and end-exclusive as in the code
Slice(s, from, to) == SubSeq(s, from + 1, Min(to, Len(s)))

\* Array.from({length: ceil(n / BATCH_SIZE)}, (_, i) => addresses.slice(i*B, i*B + B))
ChunksFloor(addresses) ==
    [k \in 1..(Len(addresses) \div BATCH_SIZE) |->
        Slice(addresses, (k - 1) * BATCH_SIZE, (k - 1) * BATCH_SIZE + BATCH_SIZE)]

ChunksOverlap(addresses) ==
    [k \in 1..CeilDiv(Len(addresses), BATCH_SIZE) |->
        Slice(addresses, (k - 1) * BATCH_SIZE, (k - 1) * BATCH_SIZE + BATCH_SIZE + 1)]

Chunks(addresses) ==
    [k \in 1..CeilDiv(Len(addresses), BATCH_SIZE) |->
        Slice(addresses, (k - 1) * BATCH_SIZE, (k - 1) * BATCH_SIZE + BATCH_SIZE)]

\* if (index < chunks.length - 1) await sleep(BASE_DELAY_MS), index 0-based
SleepsAfter(i, nChunks) == i < nChunks - 1

(**************************** getTokenHolders ******************************)
\* new Set() filled with add(), then Array.from: the first occurrences, in
\* insertion order.
DedupeNone(s) == s
Dedupe(s) ==
    LET first == {i \in 1..Len(s) : \A j \in 1..(i - 1) : s[j] # s[i]}
        nth(k) == CHOOSE i \in first : Cardinality({j \in first : j < i}) = k - 1
    IN  [k \in 1..Cardinality(first) |-> s[nth(k)]]

\* transfers.forEach(t => { add(t.sender.address); add(t.receiver.address) })
Endpoints(transfers) ==
    [i \in 1..(2 * Len(transfers)) |->
        IF i % 2 = 1 THEN transfers[(i + 1) \div 2].sender
                     ELSE transfers[i \div 2].receiver]

AllAddresses(transfers) == Dedupe(Endpoints(transfers))

\* The transfer lists the bulk query answers with: a chain 1 -> 2 -> ... -> n
\* (one self-transfer for n = 1), every inner address named twice.
ChainTransfers(n) ==
    IF n = 0 THEN <<>>
    ELSE IF n = 1 THEN << [sender |-> 1, receiver |-> 1] >>
    ELSE [i \in 1..(n - 1) |-> [sender |-> i, receiver |-> i + 1]]

\* Transfers that name the same addresses again and again, and transfers
\* between the two spellings of one account.
RepeatedTransfers ==
    << [sender |-> 1, receiver |-> 2], [sender |-> 2, receiver |-> 1],
       [sender |-> 1, receiver |-> 2], [sender |-> 2, receiver |-> 2],
       [sender |-> 3, receiver |-> 1] >>

TwoSpellings ==
    << [sender |-> 1, receiver |-> 2], [sender |-> -2, receiver |-> 2],
       [sender |-> -2, receiver |-> 1] >>

\* A transfer of an address to itself: one candidate, whose lookups may fail.
SelfTransfer == << [sender |-> 2, receiver |-> 2] >>

TransferLists ==
    { ChainTransfers(n) : n \in 0..MaxAddrs }
        \cup { RepeatedTransfers, TwoSpellings, SelfTransfer }

(***************************** the REST provider ***************************)
\* A token transaction {from, to, value}.  value is the decimal string of an
\* integer count: the digits of `digits` followed by `zeros` zeros, counted in
\* units of 1e-11 token.
Raw(digits, zeros) == [digits |-> digits, zeros |-> zeros]
Tx(from, to, value) == [from |-> from, to |-> to, value |-> value]

\* The response of a page request: whether response.data.body is there, and
\* the transactions.
NoBody == [present |-> FALSE, txs |-> <<>>]
Body(txs) == [present |-> TRUE, txs |-> txs]

\* Address strings, shortened to 0x and two hex characters.
Addr(c, d) == <<"0", "x", c, d>>

\* 0xaa, 0xbb, and 0xAA: the first again, written in upper case.
RestAddrs == << Addr("a", "a"), Addr("b", "b"), Addr("A", "A") >>

\* A page of n transactions that move one unit around the three addresses.
PageOf(n, shift) ==
    [i \in 1..n |-> Tx(RestAddrs[(i % 3) + 1], RestAddrs[((i + shift) % 3) + 1],
                       Raw(1, 0))]

\* "1000000000000000000": 1.0 token
OneToken == Raw(1, 11)

\* The largest count that Precision digits hold exactly.
AllNines == Raw((10 ^ Precision) - 1, 0)

\* Pages that end the loop, and pages after which it goes on.
LastPages ==
    { NoBody,
      Body(<<>>),
      \* 1.0 token from 0xaa to 0xbb
      Body(<< Tx(Addr("a", "a"), Addr("b", "b"), OneToken) >>),
      \* a self-transfer
      Body(<< Tx(Addr("b", "b"), Addr("b", "b"), Raw(2, 0)) >>),
      \* balances at, above and below 1e-10, and a balance of zero
      Body(<< Tx(Addr("a", "a"), Addr("b", "b"), Raw(10, 0)),
              Tx(Addr("a", "a"), Addr("c", "c"), Raw(11, 0)),
              Tx(Addr("a", "a"), Addr("d", "d"), Raw(9, 0)),
              Tx(Addr("e", "e"), Addr("f", "f"), Raw(3, 0)),
              Tx(Addr("f", "f"), Addr("e", "e"), Raw(3, 0)) >>),
      \* a sum that Precision digits do not hold
      Body(<< Tx(Addr("a", "a"), Addr("b", "b"), AllNines),
              Tx(Addr("c", "c"), Addr("b", "b"), Raw(2, 0)) >>),
      \* one account, credited under two spellings
      Body(<< Tx(Addr("b", "b"), Addr("a", "a"), Raw(20, 0)),
              Tx(Addr("b", "b"), Addr("A", "A"), Raw(30, 0)) >>),
      Body(PageOf(LIMIT_PER_PAGE - 1, 1)) }

MorePages ==
    { Body(PageOf(LIMIT_PER_PAGE, 1)),
      Body(PageOf(LIMIT_PER_PAGE, 2)),
      Body(PageOf(LIMIT_PER_PAGE + 1, 1)) }

\* How a page request fails: an HTTP status, or no response at all.
PageFailures == {"http429", "http500", "network"}

(***************************** getTokenSnapshot ****************************)
\* response.data && response.data.body && response.data.body.length > 0
HasRecords(body) == body.present /\ Len(body.txs) > 0

\* if (body.length < LIMIT_PER_PAGE) hasMoreData = false; else pageNumber++
MoreDataIfNonEmpty(len) == len > 0
MoreDataUnlessFull(len) == len < LIMIT_PER_PAGE
MoreData(len) == ~(len < LIMIT_PER_PAGE)

\* catch: a 429 becomes the rate-limit error, anything else is re-thrown as is.
CaughtErrorRethrown(failure) == failure
CaughtError(failure) ==
    IF failure = "http429" THEN "RateLimitExceeded" ELSE failure

\* Number(tx.value) / (10 ** 18)
TokenValue(raw) == Nearest(raw.digits, raw.zeros)

\* a + b is not a Number: the sum is rounded.
Inexact(a, b) ==
    LET hi == IF a.e >= b.e THEN a ELSE b
        lo == IF a.e >= b.e THEN b ELSE a
        sum == Abs(hi.m * (10 ^ (hi.e - lo.e)) + lo.m)
    IN  /\ a.m # 0
        /\ b.m # 0
        /\ \/ hi.e - lo.e > Precision + 1
           \/ /\ NumDigits(sum) > Precision
              /\ sum % (10 ^ (NumDigits(sum) - Precision)) # 0

\* The ledger while a page is folded into it: the balances in key insertion
\* order, and whether a sum was rounded so far.
Acc(ledger, inexact) == [ledger |-> ledger, inexact |-> inexact]

\* balances[key] = (balances[key] || 0) + delta
CreditOverwrite(acc, key, delta) ==
    LET hit == {k \in 1..Len(acc.ledger) : acc.ledger[k].address = key}
    IN  Acc(IF hit # {}
            THEN [acc.ledger EXCEPT ![CHOOSE k \in hit : TRUE].balance = delta]
            ELSE Append(acc.ledger, [address |-> key, balance |-> delta]),
            acc.inexact)

Credit(acc, key, delta) ==
    LET hit == {k \in 1..Len(acc.ledger) : acc.ledger[k].address = key}
        old == IF hit # {} THEN acc.ledger[CHOOSE k \in hit : TRUE].balance ELSE Zero
    IN  Acc(IF hit # {}
            THEN [acc.ledger EXCEPT ![CHOOSE k \in hit : TRUE].balance = Plus(old, delta)]
            ELSE Append(acc.ledger, [address |-> key, balance |-> Plus(old, delta)]),
            acc.inexact \/ Inexact(old, delta))

\* One transaction: balances[tx.from] is debited, then balances[tx.to] credited.
ApplyTxCreditBoth(acc, tx) ==
    Credit(Credit(acc, tx.from, TokenValue(tx.value)), tx.to, TokenValue(tx.value))
ApplyTx(acc, tx) ==
    Credit(Credit(acc, tx.from, Neg(TokenValue(tx.value))), tx.to, TokenValue(tx.value))

\* body.forEach(tx => ...) over the transactions lo..hi in order.  The range is
\* split in halves and the ledger's length is read first only to keep the
\* evaluation shallow.
RECURSIVE ApplyRange(_, _, _, _)
ApplyRange(acc, txs, lo, hi) ==
    IF lo > hi \/ Len(acc.ledger) < 0 THEN acc
    ELSE IF lo = hi
         THEN ApplyTx(acc, txs[lo])
         ELSE ApplyRange(ApplyRange(acc, txs, lo, (lo + hi) \div 2),
                         txs, ((lo + hi) \div 2) + 1, hi)

ApplyPage(acc, txs) == ApplyRange(acc, txs, 1, Len(txs))

\* Object.entries(balances).filter(([_, value]) => value > EPSILON)
HolderRowsAtLeast(ledger) == SelectSeq(ledger, LAMBDA e : ~Greater(EPSILON, e.balance))
HolderRows(ledger) == SelectSeq(ledger, LAMBDA e : Greater(e.balance, EPSILON))

(********************************* state ***********************************)
VARIABLES
    tokenAddress,   \* the argument of getTokenHolders / getTokenSnapshot
    apiKey,         \* CONFIG.BITQUERY_API_KEY
    pc,             \* the GraphQL program: load, nokey, then getTokenHolders: start,
                    \* bulk, batch, pause, done, rejected, failed
    error,          \* the error the run ended with ("none": no error)
    bulkRequests,   \* bulk transfer queries issued
    transfers,      \* getTokenHolders: transfers, the bulk query's answer
    addresses,      \* Array.from(allAddresses)
    chunks,         \* fetchAllBalances: chunks
    index,          \* fetchAllBalances: index of the chunk being processed (0-based)
    tasks,          \* the fetchWithRetry calls started so far, in start order
    holders,        \* fetchAllBalances: holders
    batchSleeps,    \* the inter-batch sleeps started so far (their delays)
    overtaken,      \* history: the retrying calls that a later call of their batch
                    \* has overtaken by resolving to a record first
    csvWritten,     \* token_holders.csv has been written
    csvRows,        \* its rows after the header
    spc,            \* getTokenSnapshot: start, fetching, delay, done, rejected, failed
    pageNumber,     \* getTokenSnapshot: pageNumber
    hasMoreData,    \* getTokenSnapshot: hasMoreData
    balances,       \* getTokenSnapshot: balances, in key insertion order
    writeStream,    \* the output stream: none, open, ended
    streamRows,     \* what has been written to it
    pagesRequested, \* the page numbers requested so far, in order
    pageSizes,      \* the number of records each answered page carried (-1: no body)
    failure,        \* how the failed page request failed ("none": none failed)
    inexact,        \* history: a ledger update so far was rounded
    records,        \* two runs over the same records: the records, in the order
                    \* the first run is served them
    order,          \* the order the second run is served them (a permutation)
    fed,            \* the number of records each run has been served
    reordered       \* the second run's balances

holdersVars == <<pc, bulkRequests, transfers, addresses, chunks, index, tasks, holders,
                 batchSleeps, overtaken, csvWritten, csvRows>>

snapshotVars == <<spc, pageNumber, hasMoreData, balances, writeStream, streamRows,
                  pagesRequested, pageSizes, failure, inexact>>

ledgerVars == <<records, order, fed, reordered>>

vars == <<tokenAddress, apiKey, error, holdersVars, snapshotVars, ledgerVars>>

(**************************** fetchWithRetry calls *************************)
\* A call of fetchWithRetry(address, tokenAddress), with the attempt its
\* recursion has reached.  phase: inflight (awaiting axios.post), backoff
\* (awaiting sleep), done (the promise is resolved with result).
NewTask(address, batch) ==
    [address |-> address, batch |-> batch, phase |-> "inflight", attempt |-> 1,
     requests |-> 1, sleeps |-> <<>>, answered |-> FALSE, result |-> Null]

\* addresses.map(address => fetchWithRetry(address, tokenAddress)): every call
\* runs to its first await, so every request of the batch is issued.
StartBatch(chunk, batch) == [j \in 1..Len(chunk) |-> NewTask(chunk[j], batch)]

BatchTasks(ts, batch) == {i \in 1..Len(ts) : ts[i].batch = batch}

\* Promise.all over the batch's calls is resolved.
BatchSettledAny(ts, batch) == \E i \in BatchTasks(ts, batch) : ts[i].phase = "done"
BatchSettled(ts, batch) == \A i \in BatchTasks(ts, batch) : ts[i].phase = "done"

\* processBatch: the values Promise.all resolved with, in the order of the
\* calls, and results.filter(result => result !== null)
BatchResultsReversed(ts, batch) ==
    LET calls == SelectSeq(ts, LAMBDA t : t.batch = batch)
    IN  [j \in 1..Len(calls) |-> calls[Len(calls) + 1 - j].result]
BatchResults(ts, batch) ==
    LET calls == SelectSeq(ts, LAMBDA t : t.batch = batch)
    IN  [j \in 1..Len(calls) |-> calls[j].result]

FilterNonNull(results) == SelectSeq(results, LAMBDA r : ~r.null)

\* The lookup of call i may fail: any request for a flaky address may, in a
\* run short enough.
MayFail(ts, i) ==
    /\ Len(addresses) <= MaxFaultyRun
    /\ ts[i].address \in FlakyAddrs

\* The earlier calls of call i's batch that have failed at least once and are
\* still unresolved (retrying) at the moment call i resolves.
Overtaken(ts, i) ==
    { j \in 1..(i - 1) : /\ ts[j].batch = ts[i].batch
                         /\ ts[j].phase # "done"
                         /\ ts[j].sleeps # <<>> }

(***************************** getTokenHolders *****************************)
\* The other variant's variables while one variant runs.
SnapshotIdle ==
    /\ spc = "off"
    /\ pageNumber = 0
    /\ hasMoreData = FALSE
    /\ balances = <<>>
    /\ writeStream = "none"
    /\ streamRows = <<>>
    /\ pagesRequested = <<>>
    /\ pageSizes = <<>>
    /\ failure = "none"
    /\ inexact = FALSE

LedgerIdle ==
    /\ records = <<>>
    /\ order = <<>>
    /\ fed = 0
    /\ reordered = <<>>

HoldersIdle ==
    /\ pc = "off"
    /\ bulkRequests = 0
    /\ transfers = <<>>
    /\ addresses = <<>>
    /\ chunks = <<>>
    /\ index = 0
    /\ tasks = <<>>
    /\ holders = <<>>
    /\ batchSleeps = <<>>
    /\ overtaken = {}
    /\ csvWritten = FALSE
    /\ csvRows = <<>>

InitHolders ==
    /\ tokenAddress \in TokenInputs
    /\ apiKey \in KeyInputs
    /\ pc = "load"
    /\ error = "none"
    /\ bulkRequests = 0
    /\ transfers = <<>>
    /\ addresses = <<>>
    /\ chunks = <<>>
    /\ index = 0
    /\ tasks = <<>>
    /\ holders = <<>>
    /\ batchSleeps = <<>>
    /\ overtaken = {}
    /\ csvWritten = FALSE
    /\ csvRows = <<>>
    /\ SnapshotIdle
    /\ LedgerIdle

\* The module is loaded: CONFIG is built and the key is checked; with a key the
\* module runs on to its last line, the call of getTokenHolders.
Load ==
    /\ pc = "load"
    /\ IF KeyMissing(apiKey)
       THEN pc' = "nokey" /\ error' = "MissingCredential"
       ELSE pc' = "start" /\ error' = error
    /\ UNCHANGED <<snapshotVars, ledgerVars>>
    /\ UNCHANGED <<tokenAddress, apiKey, bulkRequests, transfers, addresses,
                   chunks, index, tasks, holders, batchSleeps, overtaken,
                   csvWritten, csvRows>>

\* The validation gate, then the bulk transfer query is issued.
Validate ==
    /\ pc = "start"
    /\ IF HoldersGate(tokenAddress) = "pass"
       THEN /\ pc' = "bulk"
            /\ bulkRequests' = bulkRequests + 1
            /\ error' = error
       ELSE /\ pc' = "rejected"
            /\ error' = HoldersGate(tokenAddress)
            /\ bulkRequests' = bulkRequests
    /\ UNCHANGED <<snapshotVars, ledgerVars>>
    /\ UNCHANGED <<tokenAddress, apiKey, transfers, addresses, chunks, index,
                   tasks, holders, batchSleeps, overtaken, csvWritten, csvRows>>

\* The bulk query fails: catch logs and re-throws.
BulkFailRetried ==
    /\ pc = "bulk"
    /\ bulkRequests < MAX_RETRIES
    /\ bulkRequests' = bulkRequests + 1
    /\ UNCHANGED <<snapshotVars, ledgerVars>>
    /\ UNCHANGED <<tokenAddress, apiKey, pc, error, transfers, addresses, chunks,
                   index, tasks, holders, batchSleeps, overtaken, csvWritten,
                   csvRows>>

BulkFail ==
    /\ pc = "bulk"
    /\ pc' = "failed"
    /\ error' = "TransferFetchFailed"
    /\ UNCHANGED <<snapshotVars, ledgerVars>>
    /\ UNCHANGED <<tokenAddress, apiKey, bulkRequests, transfers, addresses,
                   chunks, index, tasks, holders, batchSleeps, overtaken,
                   csvWritten, csvRows>>

\* fetchAllBalances returned hs: the CSV is written and the run ends.
WriteCsv(hs) ==
    /\ pc' = "done"
    /\ csvWritten' = TRUE
    /\ csvRows' = [i \in 1..Len(hs) |-> <<hs[i].address, hs[i].balance>>]

\* The continuation of fetchAllBalances once a call of the running batch has
\* resolved and left the calls ts: nothing until Promise.all resolves; then the
\* batch's results are pushed, and either the inter-batch sleep starts or the
\* loop ends, fetchAllBalances returns and the CSV is written.
AfterCall(ts) ==
    IF pc = "batch" /\ BatchSettled(ts, index)
    THEN LET pushed == holders \o FilterNonNull(BatchResults(ts, index))
         IN  /\ holders' = pushed
             /\ IF SleepsAfter(index, Len(chunks))
                THEN /\ pc' = "pause"
                     /\ batchSleeps' = Append(batchSleeps, BASE_DELAY_MS)
                     /\ UNCHANGED <<csvWritten, csvRows>>
                ELSE /\ WriteCsv(pushed)
                     /\ UNCHANGED batchSleeps
    ELSE UNCHANGED <<pc, holders, batchSleeps, csvWritten, csvRows>>

\* The bulk query answers: the candidate set is built, fetchAllBalances forms
\* the chunks and starts the first batch (or returns at once with no chunk).
BulkOk(answer) ==
    /\ pc = "bulk"
    /\ transfers' = answer
    /\ LET candidates == AllAddresses(answer)
           formed == Chunks(candidates)
       IN  /\ addresses' = candidates
           /\ chunks' = formed
           /\ index' = 0
           /\ IF formed = <<>>
              THEN /\ WriteCsv(holders)
                   /\ UNCHANGED tasks
              ELSE /\ pc' = "batch"
                   /\ tasks' = StartBatch(formed[1], 0)
                   /\ UNCHANGED <<csvWritten, csvRows>>
    /\ UNCHANGED <<snapshotVars, ledgerVars>>
    /\ UNCHANGED <<tokenAddress, apiKey, error, bulkRequests, holders,
                   batchSleeps, overtaken>>

\* A balance lookup answers: the try block of fetchWithRetry runs to its return.
LookupOk(i) ==
    /\ tasks[i].phase = "inflight"
    /\ LET resolved == [tasks EXCEPT ![i].phase = "done", ![i].answered = TRUE,
                            ![i].result = OnResponse(tasks[i].address,
                                                     BalanceOf(tasks[i].address))]
       IN  /\ tasks' = resolved
           /\ overtaken' = IF resolved[i].result.null THEN overtaken
                           ELSE overtaken \cup Overtaken(tasks, i)
           /\ AfterCall(resolved)
    /\ UNCHANGED <<snapshotVars, ledgerVars>>
    /\ UNCHANGED <<tokenAddress, apiKey, error, bulkRequests, transfers,
                   addresses, chunks, index>>

\* A balance lookup fails: the catch block either starts the backoff sleep or
\* gives up and returns null.
LookupFail(i) ==
    /\ tasks[i].phase = "inflight"
    /\ MayFail(tasks, i)
    /\ LET caught == IF MayRetry(tasks[i].attempt)
                     THEN [tasks EXCEPT ![i].phase = "backoff",
                              ![i].sleeps = Append(@, BackoffDelay(tasks[i].attempt))]
                     ELSE [tasks EXCEPT ![i].phase = "done", ![i].result = Null]
       IN  /\ tasks' = caught
           /\ AfterCall(caught)
    /\ UNCHANGED <<snapshotVars, ledgerVars>>
    /\ UNCHANGED <<tokenAddress, apiKey, error, bulkRequests, transfers,
                   addresses, chunks, index, overtaken>>

\* The backoff sleep ends: fetchWithRetry(address, tokenAddress, attempt + 1)
\* issues the next request.
RetryTimer(i) ==
    /\ tasks[i].phase = "backoff"
    /\ tasks' = [tasks EXCEPT ![i].phase = "inflight", ![i].attempt = @ + 1,
                     ![i].requests = @ + 1]
    /\ UNCHANGED <<snapshotVars, ledgerVars>>
    /\ UNCHANGED <<tokenAddress, apiKey, pc, error, bulkRequests, transfers,
                   addresses, chunks, index, holders, batchSleeps, overtaken,
                   csvWritten, csvRows>>

\* The inter-batch sleep ends: the loop takes the next chunk.
PauseTimer ==
    /\ pc = "pause"
    /\ pc' = "batch"
    /\ index' = index + 1
    /\ tasks' = tasks \o StartBatch(chunks[index + 2], index + 1)
    /\ UNCHANGED <<snapshotVars, ledgerVars>>
    /\ UNCHANGED <<tokenAddress, apiKey, error, bulkRequests, transfers,
                   addresses, chunks, holders, batchSleeps, overtaken, csvWritten,
                   csvRows>>

NextHolders ==
    \/ Load
    \/ Validate
    \/ BulkFail
    \/ \E t \in TransferLists : BulkOk(t)
    \/ \E i \in 1..Len(tasks) : LookupOk(i)
    \/ \E i \in 1..Len(tasks) : LookupFail(i)
    \/ \E i \in 1..Len(tasks) : RetryTimer(i)
    \/ PauseTimer

SpecHolders == InitHolders /\ [][NextHolders]_vars

\* The runs of fetchAllBalances followed to their end: the program run with the
\* example token on bulk answers that give the candidate lists <<>>, <<2>>,
\* <<2, 7>> (both flaky, in one batch), <<1, 2, -2>> and a list of BATCH_SIZE + 1
\* addresses whose only flaky one is the last, alone in the second batch.
FlakyPair == << [sender |-> 2, receiver |-> 7] >>

LateFlaky ==
    LET others == SelectSeq([a \in 1..(BATCH_SIZE + 3) |-> a],
                            LAMBDA a : a \notin FlakyAddrs)
        first == [j \in 1..BATCH_SIZE |-> others[j]]
    IN  [j \in 1..BATCH_SIZE |->
            [sender |-> first[j],
             receiver |-> IF j < BATCH_SIZE THEN first[j + 1] ELSE BATCH_SIZE + 1]]

EnricherInputs ==
    { ChainTransfers(0), SelfTransfer, FlakyPair, TwoSpellings, LateFlaky }

InitEnricher == InitHolders /\ tokenAddress = Str(ExampleToken)

NextEnricher ==
    \/ Load
    \/ Validate
    \/ BulkFail
    \/ \E t \in EnricherInputs : BulkOk(t)
    \/ \E i \in 1..Len(tasks) : LookupOk(i)
    \/ \E i \in 1..Len(tasks) : LookupFail(i)
    \/ \E i \in 1..Len(tasks) : RetryTimer(i)
    \/ PauseTimer

\* Every awaited promise settles: a request that was issued is answered or
\* fails, a sleep that was started ends, and the code between two awaits runs.
FairEnricher == InitEnricher /\ [][NextEnricher]_vars /\ WF_vars(NextEnricher)

(********************** getTokenSnapshot: the page loop ********************)
InitSnapshot ==
    /\ tokenAddress \in TokenInputs
    /\ apiKey = Undefined              \* getTokenSnapshot reads no key
    /\ error = "none"
    /\ spc = "start"
    /\ pageNumber = 0
    /\ hasMoreData = FALSE
    /\ balances = <<>>
    /\ writeStream = "none"
    /\ streamRows = <<>>
    /\ pagesRequested = <<>>
    /\ pageSizes = <<>>
    /\ failure = "none"
    /\ inexact = FALSE
    /\ HoldersIdle
    /\ LedgerIdle

\* The loop has ended: the holder rows are written and the stream is ended.
Finish(ledger) ==
    /\ spc' = "done"
    /\ streamRows' = streamRows \o HolderRows(ledger)
    /\ writeStream' = "ended"

\* The validation gate; then the stream is opened, the header written, and the
\* loop requests page 1.
SnapshotValidate ==
    /\ spc = "start"
    /\ IF SnapshotGate(tokenAddress) = "pass"
       THEN /\ spc' = "fetching"
            /\ pageNumber' = 1
            /\ hasMoreData' = TRUE
            /\ writeStream' = "open"
            /\ streamRows' = << [address |-> <<"Address">>, balance |-> <<"Balance">>] >>
            /\ pagesRequested' = <<1>>
            /\ error' = error
       ELSE /\ spc' = "rejected"
            /\ error' = SnapshotGate(tokenAddress)
            /\ UNCHANGED <<pageNumber, hasMoreData, writeStream, streamRows,
                           pagesRequested>>
    /\ UNCHANGED <<tokenAddress, apiKey, balances, pageSizes, failure, inexact,
                   holdersVars, ledgerVars>>

\* A page request answers.  A page with records is folded into the ledger, the
\* page counter moves on or the loop is told to stop, and the delay starts; a
\* page without records ends the loop at once.
PageOk(body) ==
    /\ spc = "fetching"
    /\ body \in MorePages => pageNumber < MaxPages
    /\ pageSizes' = Append(pageSizes, IF body.present THEN Len(body.txs) ELSE -1)
    /\ IF HasRecords(body)
       THEN /\ LET folded == ApplyPage(Acc(balances, inexact), body.txs)
               IN  balances' = folded.ledger /\ inexact' = folded.inexact
            /\ IF MoreData(Len(body.txs))
               THEN /\ pageNumber' = pageNumber + 1
                    /\ hasMoreData' = hasMoreData
               ELSE /\ hasMoreData' = FALSE
                    /\ pageNumber' = pageNumber
            /\ spc' = "delay"
            /\ UNCHANGED <<writeStream, streamRows>>
       ELSE /\ hasMoreData' = FALSE
            /\ Finish(balances)
            /\ UNCHANGED <<balances, pageNumber, inexact>>
    /\ UNCHANGED <<tokenAddress, apiKey, error, pagesRequested, failure,
                   holdersVars, ledgerVars>>

\* The delay after a page ends: the loop requests the next page, or ends.
DelayDone ==
    /\ spc = "delay"
    /\ IF hasMoreData
       THEN /\ spc' = "fetching"
            /\ pagesRequested' = Append(pagesRequested, pageNumber)
            /\ UNCHANGED <<writeStream, streamRows>>
       ELSE /\ Finish(balances)
            /\ UNCHANGED pagesRequested
    /\ UNCHANGED <<tokenAddress, apiKey, error, pageNumber, hasMoreData, balances,
                   pageSizes, failure, inexact, holdersVars, ledgerVars>>

\* A page request fails: the catch block throws.
PageFail(f) ==
    /\ spc = "fetching"
    /\ spc' = "failed"
    /\ failure' = f
    /\ error' = CaughtError(f)
    /\ UNCHANGED <<tokenAddress, apiKey, pageNumber, hasMoreData, balances,
                   writeStream, streamRows, pagesRequested, pageSizes, inexact,
                   holdersVars, ledgerVars>>

NextSnapshot ==
    \/ SnapshotValidate
    \/ \E body \in LastPages \cup MorePages : PageOk(body)
    \/ DelayDone
    \/ \E f \in PageFailures : PageFail(f)

SpecSnapshot == InitSnapshot /\ [][NextSnapshot]_vars

\* Every request is answered or fails, and every timer fires.
FairSnapshot == SpecSnapshot /\ WF_vars(NextSnapshot)

(************** the ledger, over one set of records in two orders **********)
\* The records the provider holds, in the order of a first run.
RecordLists ==
    { << Tx(Addr("a", "a"), Addr("b", "b"), Raw(5, 0)),
         Tx(Addr("b", "b"), Addr("c", "c"), Raw(3, 0)),
         Tx(Addr("c", "c"), Addr("a", "a"), Raw(7, 0)),
         Tx(Addr("a", "a"), Addr("c", "c"), Raw(20, 0)) >>,
      \* with a self-transfer
      << Tx(Addr("a", "a"), Addr("a", "a"), Raw(5, 0)),
         Tx(Addr("a", "a"), Addr("b", "b"), Raw(20, 0)),
         Tx(Addr("b", "b"), Addr("a", "a"), Raw(8, 0)) >>,
      \* one account credited with more digits than a Number holds
      << Tx(Addr("a", "a"), Addr("b", "b"), AllNines),
         Tx(Addr("c", "c"), Addr("b", "b"), Raw(4, 0)),
         Tx(Addr("c", "c"), Addr("b", "b"), Raw(4, 0)) >>,
      \* a large amount in and out again, and a small amount in
      << Tx(Addr("c", "c"), Addr("b", "b"), Raw(1, Precision + 1)),
         Tx(Addr("c", "c"), Addr("b", "b"), Raw(15, 0)),
         Tx(Addr("b", "b"), Addr("c", "c"), Raw(1, Precision + 1)) >>,
      << Tx(Addr("a", "a"), Addr("b", "b"), OneToken) >>,
      << >> }

\* The orders of n records.
Orders(n) == {f \in [1..n -> 1..n] : \A i \in 1..n : \A j \in 1..n : f[i] = f[j] => i = j}

InitLedger ==
    /\ records \in RecordLists
    /\ order \in Orders(Len(records))
    /\ fed = 0
    /\ reordered = <<>>
    /\ tokenAddress = Str(ExampleToken)
    /\ apiKey = Undefined
    /\ error = "none"
    /\ SnapshotIdle
    /\ HoldersIdle

\* A page of n records is answered in each run and folded into its ledger.
FoldPage(n) ==
    /\ fed + n <= Len(records)
    /\ LET first == ApplyRange(Acc(balances, inexact), records, fed + 1, fed + n)
           second == ApplyPage(Acc(reordered, first.inexact),
                               [i \in 1..n |-> records[order[fed + i]]])
       IN  /\ balances' = first.ledger
           /\ reordered' = second.ledger
           /\ inexact' = second.inexact
    /\ fed' = fed + n
    /\ UNCHANGED <<tokenAddress, apiKey, error, holdersVars, records, order>>
    /\ UNCHANGED <<spc, pageNumber, hasMoreData, writeStream, streamRows,
                   pagesRequested, pageSizes, failure>>

NextLedger == \E n \in 1..LIMIT_PER_PAGE : FoldPage(n)

SpecLedger == InitLedger /\ [][NextLedger]_vars

(******************************** claims ***********************************)
Tasks == 1..Len(tasks)
Exhausted(t) == t.phase = "done" /\ ~t.answered
InHolders(r) == \E k \in 1..Len(holders) : holders[k] = r
\* The batches whose results fetchAllBalances has pushed.
Pushed(b) == b < index \/ (b = index /\ pc \in {"pause", "done"})

\* C1: an address whose lookup fails on every attempt gets exactly MAX_RETRIES
\* (3) requests and then resolves to null; no call ever gets a fourth request;
\* the failures raise nothing (the run carries no error), and the batch still
\* completes: once all its calls are done its other addresses' records are in
\* holders.
C1_ExhaustedAfterThree ==
    /\ \A i \in Tasks :
          /\ tasks[i].requests <= 3
          /\ Exhausted(tasks[i]) => tasks[i].requests = 3 /\ tasks[i].result = Null
          /\ (~tasks[i].answered /\ tasks[i].requests = 3 /\ tasks[i].phase # "inflight")
                => tasks[i].phase = "done"
    /\ pc \in {"batch", "pause", "done"} => error = "none"
    /\ \A i \in Tasks : \A j \in Tasks :
          (/\ Exhausted(tasks[i])
           /\ tasks[j].batch = tasks[i].batch
           /\ BatchSettled(tasks, tasks[i].batch)
           /\ ~tasks[j].result.null)
          => Pushed(tasks[i].batch) /\ InHolders(tasks[j].result)

C1_Witness ==
    /\ pc = "done"
    /\ csvWritten
    /\ \E i \in Tasks : \E j \in Tasks :
          /\ Exhausted(tasks[i])
          /\ tasks[i].requests = 3
          /\ tasks[j].batch = tasks[i].batch
          /\ ~tasks[j].result.null
          /\ InHolders(tasks[j].result)

\* C2: the waits of a call are 300 ms then 600 ms: every request after the
\* first follows exactly one wait, so a call with k requests has slept k - 1
\* times (k times while it is in its backoff), and a call that is done after
\* its third request has slept twice, not three times; a call answered on its
\* third request has made 3 requests with the waits 300, 600.
C2_BackoffWaits ==
    \A i \in Tasks :
        /\ \A k \in 1..Len(tasks[i].sleeps) :
              /\ k <= 2
              /\ tasks[i].sleeps[k] = (IF k = 1 THEN 300 ELSE 600)
        /\ Len(tasks[i].sleeps) =
              (IF tasks[i].phase = "backoff" THEN tasks[i].requests
                                             ELSE tasks[i].requests - 1)
        /\ tasks[i].attempt = tasks[i].requests
        /\ (tasks[i].answered /\ tasks[i].requests = 3)
              => /\ tasks[i].sleeps = <<300, 600>>
                 /\ PositiveBalance(BalanceOf(tasks[i].address))
                       => tasks[i].result.address = tasks[i].address
        /\ (Exhausted(tasks[i])) => tasks[i].sleeps = <<300, 600>>

C2_Witness ==
    \E i \in Tasks :
        /\ tasks[i].answered
        /\ tasks[i].requests = 3
        /\ ~tasks[i].result.null
        /\ tasks[i].sleeps = <<300, 600>>

\* C3: n addresses give ceil(n / 10) chunks, each of 10 addresses but the last,
\* which holds the rest; the chunks in order are the address list; the
\* inter-batch wait of 300 ms has been started once per batch left behind, and
\* a finished run has waited max(0, ceil(n / 10) - 1) times: never after the
\* last batch.
C3_Batching ==
    pc \in {"batch", "pause", "done"} =>
        LET n == Len(addresses)
            c == Len(chunks)
        IN  /\ c * BATCH_SIZE >= n
            /\ n > (c - 1) * BATCH_SIZE
            /\ \A k \in 1..c :
                  /\ Len(chunks[k]) = (IF k < c THEN BATCH_SIZE
                                                ELSE n - (c - 1) * BATCH_SIZE)
                  /\ \A j \in 1..Len(chunks[k]) :
                        chunks[k][j] = addresses[(k - 1) * BATCH_SIZE + j]
            /\ \A k \in 1..Len(batchSleeps) : batchSleeps[k] = 300
            /\ Len(batchSleeps) = (IF pc = "pause" THEN index + 1 ELSE index)
            /\ pc = "pause" => index + 1 < c
            /\ pc = "done" => Len(batchSleeps) = (IF c = 0 THEN 0 ELSE c - 1)

C3_Witness ==
    /\ pc = "done"
    /\ Len(addresses) = 25
    /\ Len(chunks) = 3
    /\ Len(chunks[1]) = 10 /\ Len(chunks[2]) = 10 /\ Len(chunks[3]) = 5
    /\ Len(batchSleeps) = 2

\* C4: at most BATCH_SIZE (10) lookup requests are outstanding.
Outstanding == {i \in Tasks : tasks[i].phase = "inflight"}

C4_OutstandingBound == Cardinality(Outstanding) <= BATCH_SIZE

C4_Witness ==
    /\ Cardinality(Outstanding) = 10
    /\ \E i \in Outstanding : tasks[i].attempt > 1
    /\ Len(chunks) > 1

\* C5: batches run in order behind a barrier: a call of a later batch exists
\* only when every call of every earlier batch is done; the calls started are
\* the address list's prefix, batch by batch; and holders is exactly the
\* non-null results of the batches pushed so far, all of whose calls are done:
\* never a result of the batch still running.
C5_Barrier ==
    /\ \A i \in Tasks : \A j \in Tasks :
          tasks[i].batch < tasks[j].batch => tasks[i].phase = "done"
    /\ \A i \in Tasks :
          /\ tasks[i].address = addresses[i]
          /\ tasks[i].batch = (i - 1) \div BATCH_SIZE
          /\ tasks[i].batch <= index
          /\ Pushed(tasks[i].batch) => tasks[i].phase = "done"
    /\ LET kept == {i \in Tasks : Pushed(tasks[i].batch) /\ ~tasks[i].result.null}
       IN  /\ Len(holders) = Cardinality(kept)
           /\ \A i \in kept :
                 holders[Cardinality({j \in kept : j <= i})] = tasks[i].result

C5_Witness ==
    /\ pc = "batch"
    /\ index = 1
    /\ holders # <<>>
    /\ \E i \in Tasks : \E j \in Tasks :
          /\ tasks[i].batch = 1 /\ tasks[j].batch = 1
          /\ tasks[i].phase = "done" /\ ~tasks[i].result.null
          /\ ~InHolders(tasks[i].result)
          /\ tasks[j].phase # "done"

\* C6: a lookup that was answered yields a record if and only if the answer
\* carries a balance that is present and strictly positive; zero, missing and
\* malformed balances yield null, raise no error, and the answered call is done:
\* it has made one request more than it has had failures, and makes no other.
C6_RecordIffPositive ==
    \A i \in Tasks :
        tasks[i].answered =>
            /\ ~tasks[i].result.null <=> PositiveBalance(BalanceOf(tasks[i].address))
            /\ tasks[i].phase = "done"
            /\ tasks[i].requests = Len(tasks[i].sleeps) + 1
            /\ error = "none"

\* C7: a run whose bulk query succeeded ends with the CSV written, and the
\* exported addresses are exactly those answered with a strictly positive
\* balance; all others are omitted.
C7_ExportedExactlyPositive ==
    /\ pc \in {"batch", "pause", "done"} => error = "none"
    /\ pc = "done" =>
          /\ csvWritten
          /\ {csvRows[k][1] : k \in 1..Len(csvRows)} =
                {tasks[i].address : i \in {j \in Tasks :
                    tasks[j].answered /\ PositiveBalance(BalanceOf(tasks[j].address))}}

\* C8, as claimed: pages are requested in ascending order from page 1, none
\* skipped or repeated; page p + 1 is requested if and only if page p returned
\* exactly LIMIT_PER_PAGE (100) records; the loop stops without error after
\* the first page with fewer records, none, or no body.
Answered == 1..Len(pageSizes)

C8_NextPageIffExactlyFull ==
    /\ \A p \in 1..Len(pagesRequested) : pagesRequested[p] = p
    /\ \A p \in Answered :
          (p < Len(pagesRequested)) => pageSizes[p] = 100
    /\ \A p \in Answered :
          (pageSizes[p] = 100 /\ spc \in {"fetching", "done", "failed"})
             => p < Len(pagesRequested)
    /\ spc = "done" => error = "none"

\* C8, amended: the same, with page p + 1 requested if and only if page p
\* returned at least LIMIT_PER_PAGE (100) records: the loop stops after the
\* first page with fewer than 100 records, none, or no body, and only there.
C8_NextPageIffFull ==
    /\ \A p \in 1..Len(pagesRequested) : pagesRequested[p] = p
    /\ Len(pageSizes) \in {Len(pagesRequested), Len(pagesRequested) - 1}
    /\ \A p \in Answered :
          (p < Len(pagesRequested)) => pageSizes[p] >= 100
    /\ \A p \in Answered :
          (pageSizes[p] >= 100 /\ spc \in {"fetching", "done", "failed"})
             => p < Len(pagesRequested)
    /\ spc = "delay" => (hasMoreData <=> pageSizes[Len(pageSizes)] >= 100)
    /\ spc = "done" =>
          /\ error = "none"
          /\ Len(pageSizes) = Len(pagesRequested)
          /\ pageSizes[Len(pageSizes)] < 100

C8_Witness ==
    /\ spc = "done"
    /\ pagesRequested = <<1, 2, 3>>
    /\ pageSizes[1] = 100 /\ pageSizes[2] = 100 /\ pageSizes[3] = 99

\* C9: a failed page request ends the run at once: the failed page is the last
\* page requested, every page before it was answered, and no page is requested
\* twice; a 429 surfaces as the rate-limit error, any other failure as itself.
C9_FailureStopsLoop ==
    /\ failure # "none" <=> spc = "failed"
    /\ spc = "failed" =>
          /\ Len(pagesRequested) = Len(pageSizes) + 1
          /\ \A p \in 1..Len(pagesRequested) : pagesRequested[p] = p
          /\ error = (IF failure = "http429" THEN "RateLimitExceeded" ELSE failure)

C9_Witness ==
    /\ spc = "failed"
    /\ failure = "http429"
    /\ error = "RateLimitExceeded"
    /\ Len(pagesRequested) = 2

\* C10: in both variants an argument that is not 0x and 40 hex characters
\* (the empty string and undefined included) ends the run with the
\* invalid-address error before any request and before the output file is
\* touched, and a well-formed address passes the gate.
C10_GateRejects ==
    /\ (pc \notin {"off", "load", "nokey", "start"} /\ ~WellFormed(tokenAddress)) =>
          /\ pc = "rejected"
          /\ error = "InvalidAddress"
          /\ bulkRequests = 0 /\ tasks = <<>> /\ ~csvWritten
    /\ (pc \notin {"off", "load", "nokey", "start"} /\ WellFormed(tokenAddress)) => pc # "rejected"
    /\ (spc \notin {"off", "load", "nokey", "start"} /\ ~WellFormed(tokenAddress)) =>
          /\ spc = "rejected"
          /\ error = "InvalidAddress"
          /\ pagesRequested = <<>> /\ writeStream = "none"
    /\ (spc \notin {"off", "load", "nokey", "start"} /\ WellFormed(tokenAddress)) => spc # "rejected"

\* C11: a failed page request (REST) or a failed bulk query (GraphQL) ends the
\* run with the error raised and leaves nothing in the output file: neither
\* the header nor a holder row has been written, and no balance lookup was
\* issued.
C11_FailedRunWritesNothing ==
    /\ spc = "failed" =>
          /\ error # "none"
          /\ streamRows = <<>>
          /\ writeStream = "none"
    /\ pc = "failed" =>
          /\ error # "none"
          /\ ~csvWritten /\ csvRows = <<>>
          /\ tasks = <<>>

\* C12: with no API key in the environment the program stops at start-up with
\* the missing-credential error: getTokenHolders is never entered, no bulk
\* query and no balance lookup is issued, and no file is written.
C12_NoKeyNoActivity ==
    (pc # "off" /\ ~apiKey.defined) =>
        /\ pc \in {"load", "nokey"}
        /\ pc = "nokey" => error = "MissingCredential"
        /\ bulkRequests = 0
        /\ tasks = <<>>
        /\ ~csvWritten /\ csvRows = <<>>

C12_Witness ==
    /\ pc = "nokey"
    /\ ~apiKey.defined
    /\ error = "MissingCredential"
    /\ bulkRequests = 0

\* The exact sum of the ledger's balances is zero: the digits are added up
\* exponent by exponent, carrying upwards, and every digit of the sum is 0.
MaxExponent(ledger) ==
    IF ledger = <<>> THEN 0
    ELSE CHOOSE x \in {ledger[k].balance.e : k \in 1..Len(ledger)} :
            \A k \in 1..Len(ledger) : ledger[k].balance.e <= x

RECURSIVE DigitsAt(_, _, _)
DigitsAt(ledger, x, k) ==
    IF k = 0 THEN 0
    ELSE DigitsAt(ledger, x, k - 1)
         + (IF ledger[k].balance.e = x THEN ledger[k].balance.m ELSE 0)

RECURSIVE CarriesToZero(_, _, _)
CarriesToZero(ledger, x, carry) ==
    IF x > MaxExponent(ledger) THEN carry = 0
    ELSE /\ (DigitsAt(ledger, x, Len(ledger)) + carry) % 10 = 0
         /\ CarriesToZero(ledger, x + 1,
                          (DigitsAt(ledger, x, Len(ledger)) + carry) \div 10)

SumIsZero(ledger) == CarriesToZero(ledger, 0, 0)

\* C13, as claimed: after any number of pages the balances of the ledger add
\* up to zero.
C13_SumIsZero == SumIsZero(balances)

\* C13, amended: every record debits `from` and credits `to` with the same
\* amount (a self-transfer leaves its address as it was), so the balances add
\* up to zero as long as no update of the ledger was rounded; balances may be
\* negative.
C13_SumIsZeroUnlessRounded ==
    ~inexact =>
        /\ SumIsZero(balances)
        /\ \A k \in 1..Len(balances) : \A j \in 1..Len(balances) :
              balances[k].address = balances[j].address => k = j

C13_Witness ==
    /\ ~inexact
    /\ pageSizes = <<100, 1>>
    /\ Len(balances) = 3
    /\ \E k \in 1..3 : balances[k].balance.m < 0
    /\ \E k \in 1..3 : balances[k].balance.m > 0
    /\ SumIsZero(balances)

\* C15: rows are written only when the loop has ended, and then one row per
\* ledger entry whose balance is strictly above 1e-10 (10 units), in the
\* ledger's order, and none for a balance at or below it, zero or negative;
\* the single record 0xaa -> 0xbb of 1.0 token gives the ledger
\* {0xaa: -1, 0xbb: 1} and the one row of 0xbb.
AboveEpsilon(x) == x.m > 0 /\ (x.e > 0 \/ x.m > 10)

Exported == {k \in 1..Len(balances) : AboveEpsilon(balances[k].balance)}

C15_Example ==
    /\ spc = "done"
    /\ pageSizes = <<1>>
    /\ balances[1].balance = [m |-> -10, e |-> 10]
    /\ streamRows[2] = [address |-> Addr("b", "b"), balance |-> [m |-> 10, e |-> 10]]

\* Two ledgers hold the same balance for every address.
BalanceIn(ledger, a) ==
    IF \E k \in 1..Len(ledger) : ledger[k].address = a
    THEN ledger[CHOOSE k \in 1..Len(ledger) : ledger[k].address = a].balance
    ELSE Zero

Keys(ledger) == {ledger[k].address : k \in 1..Len(ledger)}

SameBalances(one, two) ==
    /\ Keys(one) = Keys(two)
    /\ \A a \in Keys(one) : BalanceIn(one, a) = BalanceIn(two, a)

Holders(ledger) == {r.address : r \in {HolderRows(ledger)[k] : k \in 1..Len(HolderRows(ledger))}}

\* C14, as claimed: once both runs have been served all the records, in
\* whatever order and pages, their ledgers hold the same balance for every
\* address and give the same set of holders.
C14_SameInAnyOrder ==
    fed = Len(records) =>
        /\ SameBalances(balances, reordered)
        /\ Holders(balances) = Holders(reordered)

\* C14, amended: the same, as long as no update of either ledger was rounded.
C14_SameInAnyOrderUnlessRounded ==
    (fed = Len(records) /\ ~inexact) =>
        /\ SameBalances(balances, reordered)
        /\ Holders(balances) = Holders(reordered)

C14_Witness ==
    /\ Len(records) = 4
    /\ fed = 4
    /\ ~inexact
    /\ order = [i \in 1..4 |-> 5 - i]
    /\ balances # reordered
    /\ SameBalances(balances, reordered)
    /\ Holders(balances) # {}

\* String.prototype.toLowerCase on an address string.
LowerChar(c) ==
    CASE c = "A" -> "a" [] c = "B" -> "b" [] c = "C" -> "c"
      [] c = "D" -> "d" [] c = "E" -> "e" [] c = "F" -> "f"
      [] OTHER -> c

ToLowerCase(s) == [i \in 1..Len(s) |-> LowerChar(s[i])]

\* C16: two spellings of one address that differ only in letter case are one
\* identity: the REST ledger has one entry for it and the CSV stream one row at
\* most; the GraphQL candidate list holds it once and the CSV has one row at
\* most.
C16_OneIdentityPerAddress ==
    /\ \A k \in 1..Len(balances) : \A j \in 1..Len(balances) :
          ToLowerCase(balances[k].address) = ToLowerCase(balances[j].address) => k = j
    /\ \A k \in 2..Len(streamRows) : \A j \in 2..Len(streamRows) :
          ToLowerCase(streamRows[k].address) = ToLowerCase(streamRows[j].address)
             => k = j
    /\ \A i \in 1..Len(addresses) : \A j \in 1..Len(addresses) :
          Abs(addresses[i]) = Abs(addresses[j]) => i = j
    /\ \A k \in 1..Len(csvRows) : \A j \in 1..Len(csvRows) :
          Abs(csvRows[k][1]) = Abs(csvRows[j][1]) => k = j

\* C17: whatever the transfers, the candidate list holds every sender and
\* receiver address exactly once: each is in exactly one place of one chunk,
\* has at most one fetchWithRetry call (exactly one in a finished run), and at
\* most one entry in holders and one row in the CSV.
EndpointSet == {transfers[k].sender : k \in 1..Len(transfers)}
               \cup {transfers[k].receiver : k \in 1..Len(transfers)}

Places(a) == {p \in (1..Len(chunks)) \X (1..BATCH_SIZE) :
                 p[2] <= Len(chunks[p[1]]) /\ chunks[p[1]][p[2]] = a}

C17_Deduplicated ==
    pc \in {"batch", "pause", "done"} =>
        /\ {addresses[i] : i \in 1..Len(addresses)} = EndpointSet
        /\ Len(addresses) = Cardinality(EndpointSet)
        /\ \A a \in EndpointSet :
              /\ Cardinality(Places(a)) = 1
              /\ Cardinality({i \in Tasks : tasks[i].address = a}) <= 1
              /\ pc = "done" => Cardinality({i \in Tasks : tasks[i].address = a}) = 1
              /\ Cardinality({k \in 1..Len(holders) : holders[k].address = a}) <= 1
              /\ Cardinality({k \in 1..Len(csvRows) : csvRows[k][1] = a}) <= 1

C17_Witness ==
    /\ pc = "done"
    /\ transfers = RepeatedTransfers
    /\ addresses = <<1, 2, 3>>
    /\ Len(tasks) = 3
    /\ Len(csvRows) = 1

\* C18: the bulk query is issued once, when the gate is passed, and never
\* again; when it fails the run ends with the error, no lookup has been issued
\* and no file written.
C18_BulkQueryOnce ==
    /\ bulkRequests <= 1
    /\ pc \in {"bulk", "batch", "pause", "done", "failed"} <=> bulkRequests = 1
    /\ pc = "failed" =>
          /\ error = "TransferFetchFailed"
          /\ tasks = <<>>
          /\ ~csvWritten /\ csvRows = <<>>

C18_Witness ==
    /\ pc = "failed"
    /\ bulkRequests = 1
    /\ error = "TransferFetchFailed"
    /\ tasks = <<>>

\* C19: the page loop stops only on a page with fewer than LIMIT_PER_PAGE
\* records (or none, or no body) or on a failed request: as long as every page
\* answered was full the loop is still running, with the next page requested or
\* about to be, and no holder row written, however many pages that is; a run
\* that is done has had a short page last; and once a short page is answered
\* the run does end.
FullPages == \A p \in Answered : pageSizes[p] >= LIMIT_PER_PAGE
ShortPage == pageSizes # <<>> /\ pageSizes[Len(pageSizes)] < LIMIT_PER_PAGE

C19_Running ==
    /\ (spc \notin {"off", "start", "rejected", "failed"} /\ FullPages) =>
          /\ spc \in {"fetching", "delay"}
          /\ hasMoreData
          /\ Len(streamRows) = 1
          /\ pageNumber = Len(pageSizes) + 1
          /\ spc = "fetching" => pagesRequested[Len(pagesRequested)] = pageNumber
    /\ spc = "done" => ShortPage /\ failure = "none"
    /\ spc = "failed" => failure # "none"

C19_StopsOnlyOnShortPage ==
    /\ []C19_Running
    /\ (ShortPage /\ spc # "failed") ~> (spc = "done")

C19_Witness ==
    /\ spc = "fetching"
    /\ FullPages
    /\ Len(pageSizes) = MaxPages - 1
    /\ pageNumber = MaxPages
    /\ Len(streamRows) = 1

\* C20: the output stream is open from the gate to the end of the run, and a
\* run that has ended, with its rows written or with a failed page request, has
\* ended the stream.
C20_StreamEnded ==
    /\ spc \in {"fetching", "delay"} => writeStream = "open"
    /\ spc \in {"done", "failed"} => writeStream = "ended"

\* C21: the list fetchAllBalances returns is the candidate address list in its
\* original order, restricted to the addresses whose call yielded a record, each
\* with its own record, whatever the order in which the lookups resolved, failed
\* and were retried; when every call was answered the list is a function of the
\* candidate list alone; and the CSV rows follow the same order.
C21_HoldersInInputOrder ==
    pc = "done" =>
        LET Position(a) == CHOOSE i \in 1..Len(addresses) : addresses[i] = a
            expected == SelectSeq(addresses,
                                  LAMBDA a : ~tasks[Position(a)].result.null)
            positive == SelectSeq(addresses,
                                  LAMBDA a : ~OnResponse(a, BalanceOf(a)).null)
        IN  /\ Len(tasks) = Len(addresses)
            /\ Len(holders) = Len(expected)
            /\ \A k \in 1..Len(holders) :
                  /\ holders[k].address = expected[k]
                  /\ holders[k] = tasks[Position(expected[k])].result
                  /\ csvRows[k] = <<expected[k], holders[k].balance>>
            /\ \A k \in 1..Len(holders) : \A l \in 1..Len(holders) :
                  k < l => Position(holders[k].address) < Position(holders[l].address)
            /\ Len(csvRows) = Len(holders)
            /\ (\A i \in Tasks : tasks[i].answered) =>
                  holders = [k \in 1..Len(positive) |->
                                OnResponse(positive[k], BalanceOf(positive[k]))]

\* A finished run whose first holder was still retrying when a later call of
\* its batch resolved to a record; every other holder is of a later call.
C21_Witness ==
    /\ pc = "done"
    /\ Len(holders) >= 3
    /\ \E i \in overtaken :
          /\ tasks[i].requests = MAX_RETRIES
          /\ holders[1] = tasks[i].result
          /\ \A k \in 2..Len(holders) :
                \E j \in Tasks : /\ j > i
                                 /\ tasks[j].batch = tasks[i].batch
                                 /\ tasks[j].requests = 1
                                 /\ holders[k] = tasks[j].result

\* C22: fetchAllBalances terminates: once it runs (a batch in flight or the
\* pause between two batches) it eventually returns, given that every request
\* is eventually answered or fails. Each address has at most one call, each call
\* at most one outstanding request: a call's request is issued only after all its
\* earlier requests have failed and their sleeps have ended. The requests
\* issued are at least one and at most MAX_RETRIES (3) per call started, and on
\* return every one of the n addresses has had its call: n to 3 * n requests.
TotalRequests ==
    LET made(r) == Cardinality({i \in Tasks : tasks[i].requests >= r})
    IN  made(1) + made(2) + made(3) + made(4)

C22_Requests ==
    /\ \A i \in Tasks : \A j \in Tasks :
          tasks[i].address = tasks[j].address => i = j
    /\ \A i \in Tasks :
          /\ tasks[i].requests - 1 =
                Len(tasks[i].sleeps) - (IF tasks[i].phase = "backoff" THEN 1 ELSE 0)
          /\ tasks[i].phase = "done" =>
                tasks[i].answered \/ tasks[i].requests = MAX_RETRIES
    /\ \A a \in {addresses[k] : k \in 1..Len(addresses)} :
          Cardinality({i \in Outstanding : tasks[i].address = a}) <= 1
    /\ Len(tasks) <= Len(addresses)
    /\ Len(tasks) <= TotalRequests
    /\ TotalRequests <= MAX_RETRIES * Len(tasks)
    /\ pc = "done" => Len(tasks) = Len(addresses)

C22_Terminates ==
    /\ []C22_Requests
    /\ (pc \in {"batch", "pause"}) ~> (pc = "done")

\* A finished run of BATCH_SIZE + 1 addresses in two batches: one request for
\* each address of the first batch, three for the address of the second, whose
\* call gave up.
C22_Witness ==
    /\ pc = "done"
    /\ Len(addresses) = BATCH_SIZE + 1
    /\ Len(batchSleeps) = 1
    /\ Exhausted(tasks[Len(tasks)])
    /\ TotalRequests = Len(addresses) + MAX_RETRIES - 1

====
